---- MODULE Spec2Model ----
(***************************************************************************)
(* careful_rm.py: the safe rm wrapper.  One run of main() as a state       *)
(* machine: classification of the paths, the confirmation gates, the       *)
(* split between to_delete and to_recycle, the deletion of the non-files,  *)
(* recycle_files() (grouping by mountpoint, choice of the trash of each    *)
(* group, one move per path, the force-delete prompt) and the final rm.    *)
(*                                                                         *)
(* Paths are sequences of characters, so that str.startswith, len and      *)
(* os.path.dirname are computed as Python computes them.  The external     *)
(* collaborators (rm, mv, osascript, the user at the prompt) answer        *)
(* nondeterministically.  The home trash exists when the run starts        *)
(* (HAS_HOME), RECYCLE_BIN and the per-mount trash directories do not.     *)
(***************************************************************************)
EXTENDS Integers, Sequences, FiniteSets, TLC

VARIABLES
    all_files,   \* main: the glob-expanded path arguments, in order
    recursive,   \* main: -r / -R seen
    recycle,     \* main: --recycle, or ~/.rm_recycle, and not --direct
    recycle_hm,  \* main: ~/.rm_recycle_home, and not --direct
    dryrun,      \* main: --dryrun seen
    pc,          \* position in main() / recycle_files()
    ret,         \* main's return value, NoRet while running
    drs, fls, oth, bad,      \* main: the four classes
    to_delete, to_recycle,   \* main: the two routing lists
    files,       \* recycle_files: absolute paths still to recycle
    bins,        \* recycle_files: dict mountpoint -> paths, in insertion order
    trashes,     \* recycle_files: dict trash directory -> paths
    failed,      \* recycle_files: its local to_delete (not recycled)
    bi,          \* recycle_files: index of the next item of bins.items()
    ti, fi,      \* recycle_files: index of the trash and of the file to move next
    fsdirs,      \* the trash directories that exist on the filesystem
    rm_calls,    \* every invocation of rm: [paths, rc]
    mv_calls,    \* every invocation of recycle_file: [fl, trash, rc]
    osa_calls,   \* every invocation of recycle_darwin: [fl, rc]
    printed,     \* what --dryrun printed instead of doing: [op, fl]
    prompts,     \* every answered prompt: [q, m, a]
    refused      \* paths given up at a prompt

vars == <<all_files, recursive, recycle, recycle_hm, dryrun, pc, ret,
          drs, fls, oth, bad, to_delete, to_recycle, files, bins, trashes,
          failed, bi, ti, fi, fsdirs, rm_calls, mv_calls, osa_calls,
          printed, prompts, refused>>

(***************************************************************************)
(* Bounds of the model.                                                    *)
(***************************************************************************)
MaxFiles == 3      \* longest argument list of Spec
MaxGateFiles == 4  \* longest argument list of SpecGates
MaxSub == 1        \* most sub-directories / sub-files counted by the gate

(***************************************************************************)
(* Program constants.                                                      *)
(***************************************************************************)
CUTOFF == 3
MAX_LINE == 5
NoRet == -1

ROOT == <<"/">>
HOME == <<"/", "h">>
CWD == HOME
HOME_TRASH == HOME \o <<"/", ".", "L">>
RECYCLE_BIN == <<"/", "t">>
V_TRASH == <<".", "T">>
HAS_HOME == TRUE

(***************************************************************************)
(* The filesystem the run sees.                                            *)
(***************************************************************************)
pA == <<"a">>                                  \* ./a = /h/a, regular file
pB == <<"/", "h", "/", "b">>                   \* broken symlink
pD == <<"/", "h", "/", "d">>                   \* directory
pV == <<"/", "v">>                             \* regular file on the root mount
pM == <<"/", "m", "/", "a", "a", "a", "a">>    \* regular file on mount /m
pN == <<"/", "m", "/", "n", "/", "a">>         \* regular file on mount /m/n
pS == <<"/", "s">>                             \* socket
pL == <<"/", "l">>                             \* symlink to the directory /h/d
pX == <<"/", "x">>                             \* does not exist

Universe == {pA, pB, pD, pV, pM, pN, pS, pL, pX}

Mounts == {ROOT, <<"/", "m">>, <<"/", "m", "/", "n">>}

Kind(p) ==
    CASE p \in {pA, pV, pM, pN} -> "file"
      [] p = pB -> "broken"
      [] p = pD -> "dir"
      [] p = pS -> "socket"
      [] p = pL -> "linkdir"
      [] OTHER -> "missing"

\* os.path.isdir, isfile: follow symbolic links
isdir(p) == Kind(p) \in {"dir", "linkdir"}
isfile(p) == Kind(p) = "file"
\* os.path.islink, lexists: do not follow them
islink(p) == Kind(p) \in {"linkdir", "broken"}
lexists(p) == Kind(p) # "missing"
\* os.path.ismount: false for a symbolic link
ismount(p) == p \in Mounts

(***************************************************************************)
(* String and list helpers, as Python computes them.                       *)
(***************************************************************************)
startswith(s, pre) == Len(pre) <= Len(s) /\ SubSeq(s, 1, Len(pre)) = pre

\* str.startswith(tuple)
startswith_any(s, tup) == \E i \in 1..Len(tup) : startswith(s, tup[i])

join(a, b) == a \o <<"/">> \o b

abspath(p) == IF Len(p) > 0 /\ p[1] = "/" THEN p ELSE join(CWD, p)

RECURSIVE rstrip_slash(_)
rstrip_slash(s) ==
    IF Len(s) > 0 /\ s[Len(s)] = "/" THEN rstrip_slash(SubSeq(s, 1, Len(s) - 1)) ELSE s

\* os.path.dirname (posixpath)
dirname(p) ==
    LET slashes == {i \in 1..Len(p) : p[i] = "/"}
        i == IF slashes = {} THEN 0 ELSE CHOOSE k \in slashes : \A j \in slashes : j <= k
        head == SubSeq(p, 1, i)
    IN IF head # <<>> /\ rstrip_slash(head) # <<>> THEN rstrip_slash(head) ELSE head

SeqToSet(s) == {s[i] : i \in 1..Len(s)}

Count(s, x) == Cardinality({i \in 1..Len(s) : s[i] = x})

\* list.remove(x): the first occurrence
RECURSIVE list_remove(_, _)
list_remove(s, x) ==
    IF s = <<>> THEN <<>>
    ELSE IF Head(s) = x THEN Tail(s) ELSE <<Head(s)>> \o list_remove(Tail(s), x)

RECURSIVE MapAbs(_)
MapAbs(s) == IF s = <<>> THEN <<>> ELSE <<abspath(Head(s))>> \o MapAbs(Tail(s))

\* sorted(files, key=len, reverse=True): stable, longest first
RECURSIVE sorted_len_desc(_)
sorted_len_desc(s) ==
    IF s = <<>> THEN <<>>
    ELSE LET x == s[Len(s)]
             rest == sorted_len_desc(SubSeq(s, 1, Len(s) - 1))
             k == Cardinality({i \in 1..Len(rest) : Len(rest[i]) >= Len(x)})
         IN SubSeq(rest, 1, k) \o <<x>> \o SubSeq(rest, k + 1, Len(rest))

\* dicts keep insertion order: a sequence of [k, v]
dict_has(d, k) == \E i \in 1..Len(d) : d[i].k = k
dict_get(d, k) == d[CHOOSE i \in 1..Len(d) : d[i].k = k].v
dict_set(d, k, v) ==
    IF dict_has(d, k)
    THEN [i \in 1..Len(d) |-> IF d[i].k = k THEN [k |-> k, v |-> v] ELSE d[i]]
    ELSE Append(d, [k |-> k, v |-> v])
\* defaultdict(list)[k].append(x)
dict_append(d, k, x) ==
    IF dict_has(d, k) THEN dict_set(d, k, Append(dict_get(d, k), x))
    ELSE Append(d, [k |-> k, v |-> <<x>>])

(***************************************************************************)
(* get_ans / yesno: an empty answer takes the default.                     *)
(***************************************************************************)
Inputs == {"y", "n", ""}

yesno(input, def_yes) == IF input = "" THEN def_yes ELSE input = "y"

Asked(q, m, a) == Append(prompts, [q |-> q, m |-> m, a |-> a])
YN(b) == IF b THEN "y" ELSE "n"

(***************************************************************************)
(* main, lines 475-489: the classification of one path.                    *)
(***************************************************************************)
classify(fl) ==
    IF isdir(fl) THEN "drs"
    ELSE IF isfile(fl) \/ islink(fl) THEN "fls"
    ELSE IF lexists(fl) THEN "oth"
    ELSE "bad"

RECURSIVE select_class(_, _)
select_class(s, c) ==
    IF s = <<>> THEN <<>>
    ELSE (IF classify(Head(s)) = c THEN <<Head(s)>> ELSE <<>>)
         \o select_class(Tail(s), c)

\* the argument lists of at most n distinct paths of U
Lists(U, n) ==
    UNION {{s \in [1..k -> U] : \A i, j \in 1..k : i # j => s[i] # s[j]} : k \in 0..n}

InitDirs == {HOME_TRASH}

\* main, lines 423-478, and recycle_files, lines 270-294: the run starts on an
\* argument list of L with every combination of the flags
InitWith(L) ==
    /\ all_files \in L
    /\ recursive \in BOOLEAN
    /\ recycle \in BOOLEAN
    /\ recycle_hm \in BOOLEAN
    /\ dryrun \in BOOLEAN
    /\ pc = "classify"
    /\ ret = NoRet
    /\ drs = <<>> /\ fls = <<>> /\ oth = <<>> /\ bad = <<>>
    /\ to_delete = <<>> /\ to_recycle = <<>>
    /\ files = <<>> /\ bins = <<>> /\ trashes = <<>> /\ failed = <<>>
    /\ bi = 1 /\ ti = 1 /\ fi = 1
    /\ fsdirs = InitDirs
    /\ rm_calls = <<>> /\ mv_calls = <<>> /\ osa_calls = <<>>
    /\ printed = <<>>
    /\ prompts = <<>>
    /\ refused = {}

Init == InitWith(Lists(Universe, MaxFiles))

\* longer argument lists over fewer paths: a directory, a non-file and enough
\* plain files for the bulk-file gate to trigger after a directory gate
GateUniverse == {pA, pB, pV, pM, pD, pS}

InitGates == InitWith(Lists(GateUniverse, MaxGateFiles))

Classify ==
    /\ pc = "classify"
    /\ drs' = select_class(all_files, "drs")
    /\ fls' = select_class(all_files, "fls")
    /\ oth' = select_class(all_files, "oth")
    /\ bad' = select_class(all_files, "bad")
    /\ pc' = "dirs"
    /\ UNCHANGED <<all_files, recursive, recycle, recycle_hm, dryrun, ret,
                   to_delete, to_recycle, files, bins, trashes, failed, bi, ti, fi,
                   fsdirs, rm_calls, mv_calls, osa_calls, printed, prompts, refused>>

(***************************************************************************)
(* main, lines 501-532: the recursive-directory gate.                      *)
(***************************************************************************)
Existing == SeqToSet(drs) \cup SeqToSet(fls) \cup SeqToSet(oth)

\* the gate goes on whatever the answer
gate_pc_ignored(ans, next) == next

\* lines 531-532, 549-550, 556-557: a declined gate returns
gate_pc(ans, next) == IF ans THEN next ELSE "done"

Frame_gate ==
    UNCHANGED <<all_files, recursive, recycle, recycle_hm, dryrun,
                fls, oth, bad, to_delete, to_recycle, files, bins, trashes,
                failed, bi, ti, fi, fsdirs, rm_calls, mv_calls, osa_calls, printed>>

\* lines 511-516: info is assigned only when a sub-entry was counted
info_assigned(dc, fc) == dc # 0 \/ fc # 0

RecursiveGate ==
    /\ pc = "dirs"
    /\ recursive
    /\ drs # <<>>
    /\ \E dc \in 0..MaxSub, fc \in 0..MaxSub, input \in Inputs :
         IF ~info_assigned(dc, fc)
         THEN \* line 517 reads info: UnboundLocalError
              /\ pc' = "crashed"
              /\ UNCHANGED <<ret, prompts, refused>>
         ELSE LET ans == yesno(input, FALSE) IN
              /\ prompts' = Asked("Really delete?", <<>>, YN(ans))
              /\ pc' = gate_pc(ans, "bulk")
              /\ ret' = IF pc' = "done" THEN 1 ELSE NoRet
              /\ refused' = IF ans THEN refused ELSE refused \cup Existing
    /\ UNCHANGED drs
    /\ Frame_gate

(***************************************************************************)
(* main, lines 533-546: directories without -r.                            *)
(***************************************************************************)
\* the directories are kept
drs_kept(d) == d

\* line 546
drs_after_warning(d) == <<>>

NonRecursiveDirs ==
    /\ pc = "dirs"
    /\ ~recursive
    /\ drs # <<>>
    /\ \E input \in Inputs :
         LET ans == yesno(input, TRUE) IN
         /\ prompts' = Asked("Continue anyway?", <<>>, YN(ans))
         /\ IF ans
            THEN /\ drs' = drs_after_warning(drs)
                 /\ pc' = "bulk"
                 /\ ret' = NoRet
                 /\ refused' = refused \cup SeqToSet(drs)
            ELSE /\ drs' = drs
                 /\ pc' = "done"
                 /\ ret' = 2
                 /\ refused' = refused \cup Existing
    /\ Frame_gate

NoDirs ==
    /\ pc = "dirs"
    /\ drs = <<>>
    /\ pc' = "bulk"
    /\ UNCHANGED <<drs, ret, prompts, refused>>
    /\ Frame_gate

(***************************************************************************)
(* main, lines 547-557: the bulk-file gate.                                *)
(***************************************************************************)
\* an off-by-one cutoff
bulk_triggers_above(n) == n > CUTOFF

\* line 547
bulk_triggers(n) == n >= CUTOFF

BulkGate ==
    /\ pc = "bulk"
    /\ bulk_triggers(Len(fls))
    /\ \E input \in Inputs :
         LET ans == yesno(input, FALSE)
             inline == Len(fls) < MAX_LINE
         IN
         /\ prompts' = Asked(IF inline THEN "Delete the files?" ELSE "Deleting the following files: Delete?",
                             <<>>, YN(ans))
         /\ pc' = gate_pc(ans, "route")
         /\ ret' = IF pc' = "done" THEN (IF inline THEN 6 ELSE 10) ELSE NoRet
         /\ refused' = IF ans THEN refused ELSE refused \cup Existing
    /\ UNCHANGED drs
    /\ Frame_gate

BulkSkip ==
    /\ pc = "bulk"
    /\ ~bulk_triggers(Len(fls))
    /\ pc' = "route"
    /\ UNCHANGED <<drs, ret, prompts, refused>>
    /\ Frame_gate

(***************************************************************************)
(* main, lines 559-576: to_delete and to_recycle.                          *)
(***************************************************************************)
\* line 566
in_home(fl) == startswith(abspath(fl), HOME)

\* lines 565-568: the for loop reads to_delete[i] while the body removes from
\* to_delete; r = <<to_delete, to_recycle>>
RECURSIVE home_loop(_, _, _)
home_loop(td, tr, i) ==
    IF i > Len(td) THEN <<td, tr>>
    ELSE IF in_home(td[i])
         THEN home_loop(list_remove(td, td[i]), Append(tr, td[i]), i + 1)
         ELSE home_loop(td, tr, i + 1)

\* lines 559-568
route(d, f, rec, rec_hm) ==
    IF rec THEN <<<<>>, d \o f>>
    ELSE IF rec_hm THEN home_loop(d \o f, <<>>, 1)
    ELSE <<d \o f, <<>>>>

Route ==
    /\ pc = "route"
    /\ LET r == route(drs, fls, recycle, recycle_hm) IN
       /\ to_delete' = r[1]
       /\ to_recycle' = r[2]
       /\ IF r[1] = <<>> /\ oth = <<>> /\ r[2] = <<>>
          THEN pc' = "done" /\ ret' = 22
          ELSE pc' = "other" /\ ret' = NoRet
    /\ UNCHANGED <<all_files, recursive, recycle, recycle_hm, dryrun,
                   drs, fls, oth, bad, files, bins, trashes, failed, bi, ti, fi,
                   fsdirs, rm_calls, mv_calls, osa_calls, printed, prompts, refused>>

(***************************************************************************)
(* main, lines 578-590: the non-files.                                     *)
(***************************************************************************)
RCs == {0, 1}

\* line 589
other_done(td, tr) == td = <<>>

Other ==
    /\ pc = "other"
    /\ oth # <<>>
    /\ \E input \in Inputs, rc \in RCs :
         LET ans == yesno(input, FALSE) IN
         /\ prompts' = Asked("cannot be recycled: Delete?", <<>>, YN(ans))
         /\ rm_calls' = IF ans THEN Append(rm_calls, [paths |-> oth, rc |-> rc])
                        ELSE rm_calls
         /\ refused' = IF ans THEN refused ELSE refused \cup SeqToSet(oth)
         /\ IF ans /\ rc # 0
            THEN pc' = "done" /\ ret' = 1
            ELSE IF other_done(to_delete, to_recycle)
                 THEN pc' = "done" /\ ret' = 0
                 ELSE pc' = "recycle" /\ ret' = NoRet
    /\ UNCHANGED <<all_files, recursive, recycle, recycle_hm, dryrun,
                   drs, fls, oth, bad, to_delete, to_recycle, files, bins, trashes,
                   failed, bi, ti, fi, fsdirs, mv_calls, osa_calls, printed>>

OtherSkip ==
    /\ pc = "other"
    /\ oth = <<>>
    /\ pc' = "recycle"
    /\ UNCHANGED <<all_files, recursive, recycle, recycle_hm, dryrun, ret,
                   drs, fls, oth, bad, to_delete, to_recycle, files, bins, trashes,
                   failed, bi, ti, fi, fsdirs, rm_calls, mv_calls, osa_calls,
                   printed, prompts, refused>>

(***************************************************************************)
(* get_mount, lines 206-213.                                               *)
(***************************************************************************)
RECURSIVE get_mount(_)
get_mount(test_path) ==
    IF test_path = <<>> THEN ROOT
    ELSE IF ismount(test_path) \/ test_path = ROOT THEN test_path
    ELSE get_mount(dirname(test_path))

(***************************************************************************)
(* main, lines 592-600, and recycle_files, lines 245-267.                  *)
(***************************************************************************)
Frame_main ==
    UNCHANGED <<all_files, recursive, recycle, recycle_hm, dryrun,
                drs, fls, oth, bad, to_recycle>>

\* line 252: --dryrun returns before the first osascript
apple_pc(dry) == IF dry THEN "rm" ELSE "apple"

RecycleStart ==
    /\ pc = "recycle"
    /\ to_recycle # <<>>
    /\ fsdirs' = fsdirs \cup {RECYCLE_BIN}
    /\ files' = MapAbs(to_recycle)
    /\ \E apple \in BOOLEAN :
         /\ pc' = IF apple THEN apple_pc(dryrun) ELSE "group"
         /\ printed' = IF apple /\ dryrun
                       THEN printed \o [i \in 1..Len(files') |-> [op |-> "osa", fl |-> files'[i]]]
                       ELSE printed
    /\ UNCHANGED <<ret, to_delete, bins, trashes, failed, bi, ti, fi,
                   rm_calls, mv_calls, osa_calls, prompts, refused>>
    /\ Frame_main

RecycleSkip ==
    /\ pc = "recycle"
    /\ to_recycle = <<>>
    /\ pc' = "rm"
    /\ UNCHANGED <<ret, to_delete, files, bins, trashes, failed, bi, ti, fi, fsdirs,
                   rm_calls, mv_calls, osa_calls, printed, prompts, refused>>
    /\ Frame_main

RECURSIVE select_at(_, _, _)
select_at(s, idx, i) ==
    IF i > Len(s) THEN <<>>
    ELSE (IF i \in idx THEN <<s[i]>> ELSE <<>>) \o select_at(s, idx, i + 1)

\* lines 258-267: one osascript per path; the paths it failed on go on
AppleScript ==
    /\ pc = "apple"
    /\ \E bad_idx \in SUBSET (1..Len(files)) :
         LET new_fls == select_at(files, bad_idx, 1) IN
         /\ osa_calls' = osa_calls \o
               [i \in 1..Len(files) |->
                   [fl |-> files[i], rc |-> IF i \in bad_idx THEN 1 ELSE 0]]
         /\ IF new_fls # <<>>
            THEN files' = new_fls /\ pc' = "group"
            ELSE files' = files /\ pc' = "rm"
    /\ UNCHANGED <<ret, to_delete, bins, trashes, failed, bi, ti, fi, fsdirs,
                   rm_calls, mv_calls, printed, prompts, refused>>
    /\ Frame_main

(***************************************************************************)
(* recycle_files, lines 269-290: the groups.                               *)
(***************************************************************************)
\* lines 284-288
remap(mnt, fl) ==
    IF mnt = ROOT
    THEN IF HAS_HOME /\ startswith(fl, HOME) THEN HOME_TRASH ELSE RECYCLE_BIN
    ELSE mnt

\* lines 278-281: the first known mountpoint that is a prefix
first_prefix(fl, gotn) ==
    gotn[CHOOSE i \in 1..Len(gotn) :
            /\ startswith(fl, gotn[i])
            /\ \A j \in 1..(i - 1) : ~startswith(fl, gotn[j])]

\* lines 277-290: the mountpoint under which fl is filed
bin_of(fl, gotn) ==
    IF startswith_any(fl, gotn) THEN first_prefix(fl, gotn)
    ELSE remap(get_mount(fl), fl)

\* lines 275-290; r = <<bins, gotn>>
RECURSIVE group_loop(_, _, _, _)
group_loop(fs, i, b, gotn) ==
    IF i > Len(fs) THEN b
    ELSE LET fl == fs[i]
             d == bin_of(fl, gotn)
         IN group_loop(fs, i + 1, dict_append(b, d, fl),
                       IF startswith_any(fl, gotn) THEN gotn ELSE Append(gotn, d))

Frame_rf ==
    UNCHANGED <<ret, to_delete, rm_calls, osa_calls, refused>>

Group ==
    /\ pc = "group"
    /\ files' = sorted_len_desc(files)
    /\ bins' = group_loop(files', 1, <<>>, <<>>)
    /\ bi' = 1
    /\ pc' = "trashes"
    /\ UNCHANGED <<trashes, failed, ti, fi, fsdirs, mv_calls, printed, prompts>>
    /\ Frame_rf
    /\ Frame_main

(***************************************************************************)
(* recycle_files, lines 292-322: the trash of each group.                  *)
(***************************************************************************)
\* lines 297-300
r_trash_of(mount) ==
    IF mount = HOME_TRASH \/ mount = RECYCLE_BIN THEN mount ELSE join(mount, V_TRASH)

\* lines 302, 314
trashes_assign(t, r_trash, file_list) == dict_set(t, r_trash, file_list)

\* lines 316-318
trashes_root(t, file_list) ==
    IF dict_has(t, RECYCLE_BIN)
    THEN dict_set(t, RECYCLE_BIN, dict_get(t, RECYCLE_BIN) \o file_list)
    ELSE dict_set(t, RECYCLE_BIN, file_list)

after_trashes(t) == IF t = <<>> THEN "ask" ELSE "move"

UseTrash ==
    /\ pc = "trashes"
    /\ bi <= Len(bins)
    /\ r_trash_of(bins[bi].k) \in fsdirs
    /\ trashes' = trashes_assign(trashes, r_trash_of(bins[bi].k), bins[bi].v)
    /\ bi' = bi + 1
    /\ pc' = IF bi = Len(bins) THEN after_trashes(trashes') ELSE "trashes"
    /\ ti' = 1 /\ fi' = 1
    /\ UNCHANGED <<files, bins, failed, fsdirs, mv_calls, printed, prompts>>
    /\ Frame_rf
    /\ Frame_main

TrashAnswers == {"create", "root", "del"}

AskTrash ==
    /\ pc = "trashes"
    /\ bi <= Len(bins)
    /\ r_trash_of(bins[bi].k) \notin fsdirs
    /\ \E ans \in TrashAnswers :
         LET mount == bins[bi].k
             file_list == bins[bi].v
             r_trash == r_trash_of(mount)
         IN
         /\ prompts' = Asked("Create, use (root), or delete files?", mount, ans)
         /\ fsdirs' = IF ans = "create" THEN fsdirs \cup {r_trash} ELSE fsdirs
         /\ trashes' = CASE ans = "create" -> trashes_assign(trashes, r_trash, file_list)
                         [] ans = "root" -> trashes_root(trashes, file_list)
                         [] OTHER -> trashes
         /\ failed' = IF ans = "del" THEN failed \o file_list ELSE failed
    /\ bi' = bi + 1
    /\ pc' = IF bi = Len(bins) THEN after_trashes(trashes') ELSE "trashes"
    /\ ti' = 1 /\ fi' = 1
    /\ UNCHANGED <<files, bins, mv_calls, printed>>
    /\ Frame_rf
    /\ Frame_main

(***************************************************************************)
(* recycle_files, lines 324-330: one move per path.                        *)
(***************************************************************************)
MoveAdvance ==
    /\ IF fi < Len(trashes[ti].v)
       THEN ti' = ti /\ fi' = fi + 1 /\ pc' = "move"
       ELSE /\ ti' = ti + 1
            /\ fi' = 1
            /\ pc' = IF ti < Len(trashes) THEN "move" ELSE "ask"

\* line 329: recycle_file is called unless --dryrun
MoveFile ==
    /\ pc = "move"
    /\ ~dryrun
    /\ \E rc \in RCs :
         /\ mv_calls' = Append(mv_calls,
                [fl |-> trashes[ti].v[fi], trash |-> trashes[ti].k, rc |-> rc])
         /\ failed' = IF rc # 0 THEN Append(failed, trashes[ti].v[fi]) ELSE failed
    /\ MoveAdvance
    /\ UNCHANGED <<files, bins, trashes, bi, fsdirs, printed, prompts>>
    /\ Frame_rf
    /\ Frame_main

\* lines 327-328
PrintMove ==
    /\ pc = "move"
    /\ dryrun
    /\ printed' = Append(printed, [op |-> "mv", fl |-> trashes[ti].v[fi]])
    /\ MoveAdvance
    /\ UNCHANGED <<files, bins, trashes, failed, bi, fsdirs, mv_calls, prompts>>
    /\ Frame_rf
    /\ Frame_main

(***************************************************************************)
(* recycle_files, lines 332-340, and main, line 597.                       *)
(***************************************************************************)
\* the answer is not looked at
force_delete_always(ans, td) == td

\* lines 337-340: what recycle_files returns
force_delete(ans, td) == IF ans THEN td ELSE <<>>

ForceDeletePrompt ==
    /\ pc = "ask"
    /\ failed # <<>>
    /\ \E input \in Inputs :
         LET ans == yesno(input, FALSE) IN
         /\ prompts' = Asked("Attempt to fully delete with rm?", <<>>, YN(ans))
         /\ to_delete' = to_delete \o force_delete(ans, failed)
         /\ refused' = IF ans THEN refused ELSE refused \cup SeqToSet(failed)
    /\ pc' = "rm"
    /\ UNCHANGED <<ret, files, bins, trashes, failed, bi, ti, fi, fsdirs,
                   rm_calls, mv_calls, osa_calls, printed>>
    /\ Frame_main

NoFailure ==
    /\ pc = "ask"
    /\ failed = <<>>
    /\ pc' = "rm"
    /\ UNCHANGED <<ret, to_delete, files, bins, trashes, failed, bi, ti, fi, fsdirs,
                   rm_calls, mv_calls, osa_calls, printed, prompts, refused>>
    /\ Frame_main

(***************************************************************************)
(* main, lines 602-618: rm.                                                *)
(***************************************************************************)
Frame_rm ==
    UNCHANGED <<to_delete, files, bins, trashes, failed, bi, ti, fi, fsdirs,
                mv_calls, osa_calls, prompts, refused>>

\* lines 611-616: rm is called unless --dryrun
RmCall ==
    /\ pc = "rm"
    /\ to_delete # <<>>
    /\ ~dryrun
    /\ \E rc \in RCs :
         /\ rm_calls' = Append(rm_calls, [paths |-> to_delete, rc |-> rc])
         /\ ret' = rc
    /\ pc' = "done"
    /\ UNCHANGED printed
    /\ Frame_rm
    /\ Frame_main

RmPrint ==
    /\ pc = "rm"
    /\ to_delete # <<>>
    /\ dryrun
    /\ printed' = printed \o [i \in 1..Len(to_delete) |-> [op |-> "rm", fl |-> to_delete[i]]]
    /\ ret' = 0
    /\ pc' = "done"
    /\ UNCHANGED rm_calls
    /\ Frame_rm
    /\ Frame_main

RmNothing ==
    /\ pc = "rm"
    /\ to_delete = <<>>
    /\ ret' = 0
    /\ pc' = "done"
    /\ UNCHANGED <<rm_calls, printed>>
    /\ Frame_rm
    /\ Frame_main

Next ==
    \/ Classify
    \/ RecursiveGate
    \/ NonRecursiveDirs
    \/ NoDirs
    \/ BulkGate
    \/ BulkSkip
    \/ Route
    \/ Other
    \/ OtherSkip
    \/ RecycleStart
    \/ RecycleSkip
    \/ AppleScript
    \/ Group
    \/ UseTrash
    \/ AskTrash
    \/ MoveFile
    \/ PrintMove
    \/ ForceDeletePrompt
    \/ NoFailure
    \/ RmCall
    \/ RmPrint
    \/ RmNothing

Spec == Init /\ [][Next]_vars

SpecGates == InitGates /\ [][Next]_vars

(***************************************************************************)
(* What a run did, read off its logs.                                      *)
(***************************************************************************)
AbsSet(S) == {abspath(p) : p \in S}

RmPaths == AbsSet(UNION {SeqToSet(rm_calls[i].paths) : i \in 1..Len(rm_calls)})
RmPrinted == AbsSet({printed[i].fl : i \in {j \in 1..Len(printed) : printed[j].op = "rm"}})
MovedOK ==
    {mv_calls[i].fl : i \in {j \in 1..Len(mv_calls) : mv_calls[j].rc = 0}}
    \cup {osa_calls[i].fl : i \in {j \in 1..Len(osa_calls) : osa_calls[j].rc = 0}}
MovePrinted == {printed[i].fl : i \in {j \in 1..Len(printed) : printed[j].op # "rm"}}

Answered(q, a) == \E i \in 1..Len(prompts) : prompts[i].q = q /\ prompts[i].a = a

BulkQs == {"Delete the files?", "Deleting the following files: Delete?"}
BulkCount == Cardinality({i \in 1..Len(prompts) : prompts[i].q \in BulkQs})
BulkDeclined == \E q \in BulkQs : Answered(q, "n")

NothingTouched ==
    /\ rm_calls = <<>>
    /\ mv_calls = <<>>
    /\ osa_calls = <<>>
    /\ fsdirs = InitDirs

GivenDrs == select_class(all_files, "drs")
GivenFls == select_class(all_files, "fls")

\* below the home directory, by path components
UnderHome(p) == abspath(p) = HOME \/ startswith(abspath(p), HOME \o <<"/">>)

InBuckets(p) ==
    LET a == abspath(p) IN
    {b \in {"deleted", "recycled", "refused", "missing"} :
        \/ b = "deleted" /\ a \in RmPaths \cup RmPrinted
        \/ b = "recycled" /\ a \in MovedOK \cup MovePrinted
        \/ b = "refused" /\ a \in AbsSet(refused)
        \/ b = "missing" /\ p \in SeqToSet(bad)}

(***************************************************************************)
(* C1. When main() returns, every input path is in exactly one terminal    *)
(* bucket: handed to rm, moved to a trash, given up at a prompt, or        *)
(* reported missing.  With --dryrun the printed rm command and the printed *)
(* moves stand for the calls; directories dropped after 'Continue anyway?' *)
(* count as given up at a prompt; the runs that end on a failed rm of the  *)
(* non-files are left out.                                                 *)
(***************************************************************************)
C1_OneTerminalBucket ==
    (pc = "done" /\ \A i \in 1..Len(rm_calls) : rm_calls[i].rc = 0)
        => \A p \in SeqToSet(all_files) : Cardinality(InBuckets(p)) = 1

ForceQ == "Attempt to fully delete with rm?"

(***************************************************************************)
(* C2. A path routed to recycling that no move put in a trash reaches rm   *)
(* (or the rm command printed by --dryrun) only if the prompt 'Attempt to  *)
(* fully delete with rm?' was answered yes; once that prompt is answered   *)
(* no, the path is neither deleted nor recycled.                           *)
(***************************************************************************)
C2_DeleteOnlyAfterConfirmation ==
    \A a \in AbsSet(SeqToSet(to_recycle)) :
        a \notin MovedOK =>
            /\ a \in RmPaths \cup RmPrinted => Answered(ForceQ, "y") /\ a \in SeqToSet(failed)
            /\ Answered(ForceQ, "n") => a \notin RmPaths \cup RmPrinted

\* a failed move, the prompt answered yes, the path handed to rm
C2_Witness ==
    /\ pc = "done"
    /\ Answered(ForceQ, "y")
    /\ \E i \in 1..Len(mv_calls) :
         /\ mv_calls[i].rc # 0
         /\ mv_calls[i].fl \in AbsSet(SeqToSet(to_recycle))
         /\ mv_calls[i].fl \in RmPaths

(***************************************************************************)
(* C3. Once the recursive-directory gate or the bulk-file gate is          *)
(* declined, main() has returned a non-zero code and the run has called    *)
(* neither rm, nor a move, nor the desktop trash, nor created a trash      *)
(* directory, before the decline or after it.                              *)
(***************************************************************************)
C3_DeclinedGateAborts ==
    (Answered("Really delete?", "n") \/ BulkDeclined) =>
        /\ pc = "done"
        /\ ret \notin {0, NoRet}
        /\ NothingTouched

\* the bulk-file gate declined on a recycling run
C3_Witness ==
    /\ BulkDeclined
    /\ recycle
    /\ pc = "done"
    /\ ret = 6

SmallDirectRun ==
    /\ GivenDrs = <<>>
    /\ oth = <<>>
    /\ ~recycle /\ ~recycle_hm /\ ~dryrun
    /\ Len(GivenFls) < CUTOFF

PlainRm ==
    /\ prompts = <<>>
    /\ Len(GivenFls) > 0 => Len(rm_calls) = 1 /\ rm_calls[1].paths = GivenFls

PastBulkGate ==
    \/ pc \in {"route", "other", "recycle", "apple", "group", "trashes", "move", "ask", "rm"}
    \/ /\ pc = "done"
       /\ ~Answered("Really delete?", "n")
       /\ ~Answered("Continue anyway?", "n")

C5_Original ==
    Answered("Continue anyway?", "n") => drs = <<>> /\ ret # 2

Handled ==
    RmPaths \cup RmPrinted \cup MovePrinted
    \cup {mv_calls[i].fl : i \in 1..Len(mv_calls)}
    \cup {osa_calls[i].fl : i \in 1..Len(osa_calls)}
    \cup AbsSet(SeqToSet(to_delete)) \cup AbsSet(SeqToSet(to_recycle))

(***************************************************************************)
(* C5, amended.  When directories are given without recursion the run asks *)
(* 'Continue anyway?'.  Declining aborts the run at once with code 2 and   *)
(* nothing deleted, moved or created.  Accepting (the default) removes all *)
(* directories from processing, while the plain files continue through the *)
(* bulk-file gate and on to deletion or recycling.                         *)
(***************************************************************************)
C5_ContinueAnyway ==
    /\ (pc # "classify" /\ ~recursive /\ GivenDrs # <<>>) =>
           pc = "dirs" \/ prompts[1].q = "Continue anyway?"
    /\ Answered("Continue anyway?", "n") =>
           pc = "done" /\ ret = 2 /\ NothingTouched
    /\ Answered("Continue anyway?", "y") =>
           /\ drs = <<>>
           /\ Handled \cap AbsSet(SeqToSet(GivenDrs)) = {}
           /\ (pc # "bulk" /\ Len(fls) >= CUTOFF) => BulkCount = 1
           /\ pc = "other" =>
                  SeqToSet(to_delete) \cup SeqToSet(to_recycle) = SeqToSet(fls)

\* accepted next to 3 files: the bulk gate asked, and the files went to rm
C5_Witness ==
    /\ Answered("Continue anyway?", "y")
    /\ BulkCount = 1
    /\ pc = "done"
    /\ \E i \in 1..Len(rm_calls) : rm_calls[i].paths = fls

(***************************************************************************)
(* C6. With --dryrun the run calls neither rm, nor a move, nor the desktop *)
(* trash, and creates no trash directory.                                  *)
(***************************************************************************)
C6_DryrunTouchesNothing == dryrun => NothingTouched

(***************************************************************************)
(* C7. With recycle-home-only (and recycle off), after the split every     *)
(* surviving path under the home directory is in to_recycle exactly once   *)
(* and not in to_delete, and every other path is still in to_delete.       *)
(***************************************************************************)
C7_HomeSplit ==
    (pc = "other" /\ recycle_hm /\ ~recycle) =>
        \A p \in SeqToSet(drs \o fls) :
            IF UnderHome(p)
            THEN Count(to_recycle, p) = 1 /\ Count(to_delete, p) = 0
            ELSE Count(to_delete, p) = 1 /\ Count(to_recycle, p) = 0

(***************************************************************************)
(* C8. The classifier puts every symbolic link, wherever it points, with   *)
(* the files/links, and only real directories with the directories.        *)
(***************************************************************************)
C8_SymlinkNeverDirectory ==
    pc = "dirs" =>
        \A p \in SeqToSet(all_files) :
            /\ islink(p) => p \in SeqToSet(fls) /\ p \notin SeqToSet(drs)
            /\ p \in SeqToSet(drs) => Kind(p) = "dir"

MountQ == "Create, use (root), or delete files?"

(***************************************************************************)
(* C9. When the user answers 'root' for a mount group, every path of the   *)
(* group is handed to recycle_file exactly once, with RECYCLE_BIN as the   *)
(* trash, whatever the other groups are.                                   *)
(***************************************************************************)
C9_RootGroupMovedOnce ==
    (pc = "ask" /\ ~dryrun) =>
        \A i \in 1..Len(bins) :
            Answered(MountQ, "root") /\ (\E j \in 1..Len(prompts) :
                prompts[j] = [q |-> MountQ, m |-> bins[i].k, a |-> "root"]) =>
                \A fl \in SeqToSet(bins[i].v) :
                    /\ Cardinality({k \in 1..Len(mv_calls) : mv_calls[k].fl = fl}) = 1
                    /\ \A k \in 1..Len(mv_calls) :
                           mv_calls[k].fl = fl => mv_calls[k].trash = RECYCLE_BIN

(***************************************************************************)
(* C10. Every path is filed under the mountpoint get_mount returns for it  *)
(* (the root mount remapped to the home trash or to RECYCLE_BIN).          *)
(***************************************************************************)
C10_GroupedByOwnMount ==
    pc = "trashes" =>
        \A i \in 1..Len(bins) :
            \A fl \in SeqToSet(bins[i].v) : bins[i].k = remap(get_mount(fl), fl)

(***************************************************************************)
(* C11. With recursion requested and at least one directory given, the run *)
(* never terminates abnormally in the recursive-directory gate: once it    *)
(* has left the gate, 'Really delete?' was asked, whatever the counts of   *)
(* sub-entries, all directories empty included.  Stated for the runs whose *)
(* directories are all real directories.                                   *)
(***************************************************************************)
C11_RecursiveGateReachesPrompt ==
    (/\ recursive
     /\ GivenDrs # <<>>
     /\ \A p \in SeqToSet(GivenDrs) : Kind(p) = "dir"
     /\ pc \notin {"classify", "dirs"}) =>
        /\ pc # "crashed"
        /\ prompts # <<>>
        /\ prompts[1].q = "Really delete?"
====
